---- MODULE Spec2Model ----
(***************************************************************************)
(* Model of cffi_src/factory.go: the session registry `clients`, guarded   *)
(* by `clientsLock`, and the calls GetTlsClientFromInput / getTlsClient /  *)
(* handleModification made on it by concurrent callers.                    *)
(*                                                                         *)
(* A Go pointer (to a string or a CustomTlsClient) is a sequence of length *)
(* at most 1: <<>> is nil, <<v>> points to v.  A client handle (the         *)
(* tls_client.HttpClient interface value) is an index into `handles`, the  *)
(* heap of client objects the library has constructed; 0 is the nil        *)
(* interface value.                                                        *)
(***************************************************************************)
EXTENDS Integers, Sequences, FiniteSets, TLC

(* ------------------------------ bounds -------------------------------- *)

\* Number of GetTlsClientFromInput calls the callers start, all threads together.
MaxCalls == 3

(* --------------------------- Go value helpers -------------------------- *)

Nil == <<>>

Ptr(v) == <<v>>

Deref(p) == p[1]

\* the nil interface value of tls_client.HttpClient
NilClient == 0

\* a nil *TLSClientError / error
NoErr == "nil"

\* the errors of GetTlsClientFromInput / getTlsClient, by their cause
ErrBoth == "can not built client out of client identifier and custom tls client information"

ErrNeither == "can not built client without client identifier and without custom tls client information"

ErrModify == "failed to modify existing client"

ErrCustom == "can not build http client out of custom tls client information"

ErrConstruct == "NewHttpClient: could not build the client"

(* ------------------------ external collaborators ----------------------- *)

\* tls_client.DefaultTimeoutSeconds
DefaultTimeoutSeconds == 30

\* Proxy URLs the transport's dialer refuses (malformed URLs).
RejectedProxyUrls == {"::bad"}

ProxyRejected(url) == url \in RejectedProxyUrls

\* JA3 strings tls_client.GetSpecFactorFromJa3String parses.
WellFormedJa3 == {"771,4865,0-23,29,0"}

GetSpecFactorFromJa3String(ja3) ==
    IF ja3 \in WellFormedJa3
    THEN [specFactory |-> ja3, err |-> NoErr]
    ELSE [specFactory |-> "", err |-> "malformed ja3"]

\* A ClientProfile as tls_client.NewClientProfile assembles it.
NewClientProfile(clientHelloId, settings, settingsOrder, pseudoHeaderOrder, connectionFlow, priorities) ==
    [clientHelloId |-> clientHelloId, settings |-> settings,
     settingsOrder |-> settingsOrder, pseudoHeaderOrder |-> pseudoHeaderOrder,
     connectionFlow |-> connectionFlow, priorities |-> priorities]

NamedProfile(name) ==
    NewClientProfile([Client |-> name, Version |-> "0", SpecFactory |-> ""],
                     <<>>, <<>>, <<>>, 0, <<>>)

\* tls_client.MappedTLSClients: the catalog of named fingerprints.
MappedTLSClients == [id \in {"chrome_103", "firefox_102"} |-> NamedProfile(id)]

\* tls_client.DefaultClientProfile
DefaultClientProfile == NamedProfile("default")

\* the zero value of tls_client.ClientProfile (var clientProfile)
ZeroClientProfile == NamedProfile("")

(* --------------------------- profile resolver -------------------------- *)

getTlsClientProfile(tlsClientIdentifier) ==
    IF tlsClientIdentifier \in DOMAIN MappedTLSClients
    THEN MappedTLSClients[tlsClientIdentifier]
    ELSE DefaultClientProfile

\* http2.SettingID(key): the setting id as a uint16
SettingID(key) == key % 65536

\* the resolver handing the settings order on in ascending order
getCustomTlsClientProfileSorted(def) ==
    LET parsed == GetSpecFactorFromJa3String(def.Ja3String) IN
    IF parsed.err # NoErr
    THEN [clientHelloId |-> [Client |-> "", Version |-> "", SpecFactory |-> ""],
          h2Settings |-> <<>>, h2SettingsOrder |-> <<>>, pseudoHeaderOrder |-> <<>>,
          connectionFlow |-> 0, priorityFrames |-> <<>>, err |-> parsed.err]
    ELSE [clientHelloId |-> [Client |-> "Custom", Version |-> "1",
                             SpecFactory |-> parsed.specFactory],
          h2Settings |-> def.H2Settings,
          h2SettingsOrder |-> SortSeq(def.H2SettingsOrder, LAMBDA a, b : a < b),
          pseudoHeaderOrder |-> def.PseudoHeaderOrder,
          connectionFlow |-> def.ConnectionFlow,
          priorityFrames |-> def.PriorityFrames,
          err |-> NoErr]

getCustomTlsClientProfile(def) ==
    LET parsed == GetSpecFactorFromJa3String(def.Ja3String) IN
    IF parsed.err # NoErr
    THEN [clientHelloId |-> [Client |-> "", Version |-> "", SpecFactory |-> ""],
          h2Settings |-> <<>>, h2SettingsOrder |-> <<>>, pseudoHeaderOrder |-> <<>>,
          connectionFlow |-> 0, priorityFrames |-> <<>>, err |-> parsed.err]
    ELSE [clientHelloId |-> [Client |-> "Custom", Version |-> "1",
                             SpecFactory |-> parsed.specFactory],
          h2Settings |-> [k \in {SettingID(key) : key \in DOMAIN def.H2Settings} |->
              def.H2Settings[CHOOSE key \in DOMAIN def.H2Settings : SettingID(key) = k]],
          h2SettingsOrder |-> [i \in 1..Len(def.H2SettingsOrder) |->
              SettingID(def.H2SettingsOrder[i])],
          pseudoHeaderOrder |-> def.PseudoHeaderOrder,
          connectionFlow |-> def.ConnectionFlow,
          priorityFrames |-> [i \in 1..Len(def.PriorityFrames) |->
              [StreamID |-> def.PriorityFrames[i].StreamID,
               PriorityParam |->
                  [StreamDep |-> def.PriorityFrames[i].PriorityParam.StreamDep,
                   Exclusive |-> def.PriorityFrames[i].PriorityParam.Exclusive,
                   Weight |-> def.PriorityFrames[i].PriorityParam.Weight]]],
          err |-> NoErr]

(* ------------------------------- inputs -------------------------------- *)

Threads == {"t1", "t2"}

\* session ids callers make up themselves
SessionIds == {"s1"}

\* the ids uuid.New().String() hands out, in the order it hands them out
UuidSeq == <<"uuid-1">>

AllSessionIds == SessionIds \cup {UuidSeq[i] : i \in 1..Len(UuidSeq)}

GoodCustom ==
    [Ja3String |-> "771,4865,0-23,29,0",
     H2Settings |-> <<65536, 0>>,
     H2SettingsOrder |-> <<2, 1>>,
     PseudoHeaderOrder |-> <<":method", ":path">>,
     ConnectionFlow |-> 15,
     PriorityFrames |-> <<[StreamID |-> 3,
                           PriorityParam |-> [StreamDep |-> 0, Exclusive |-> FALSE,
                                              Weight |-> 200]]>>]

BadJa3Custom == [GoodCustom EXCEPT !.Ja3String = "not-a-ja3"]

\* The RequestInput fields GetTlsClientFromInput reads, for every choice of
\* the fields other than the session id.
InputsOver(identifiers, customs, proxyUrls, timeouts, insecures) ==
    [SessionId : {Nil},
     TLSClientIdentifier : identifiers,
     CustomTlsClient : customs,
     ProxyUrl : proxyUrls,
     FollowRedirects : BOOLEAN,
     TimeoutSeconds : timeouts,
     InsecureSkipVerify : insecures]

\* what a single caller passes
SequentialInputs ==
    InputsOver({"", "chrome_103"}, {Nil, Ptr(GoodCustom), Ptr(BadJa3Custom)},
               {Nil, Ptr(""), Ptr("http://p1"), Ptr("::bad")}, {0}, {FALSE})

\* what each of two concurrent callers passes
ConcurrentInputs ==
    InputsOver({"chrome_103"}, {Nil}, {Nil, Ptr("http://p1"), Ptr("::bad")},
               {0}, {FALSE})

\* what a caller passes that comes back to one session with other creation-time
\* fields
AttributeInputs ==
    InputsOver({"", "chrome_103", "firefox_102"},
               {Nil, Ptr(GoodCustom), Ptr(BadJa3Custom)},
               {Nil, Ptr("http://p1")}, {0, 5}, {FALSE, TRUE})

\* the zero RequestInput, held by a thread that is not inside a call
NoInput ==
    [SessionId |-> Nil, TLSClientIdentifier |-> "", CustomTlsClient |-> Nil,
     ProxyUrl |-> Nil, FollowRedirects |-> FALSE, TimeoutSeconds |-> 0,
     InsecureSkipVerify |-> FALSE]

(* -------------------------------- state -------------------------------- *)

VARIABLES
    clients,       \* the registry: session id -> handle, Absent when no entry
    handles,       \* the client objects constructed so far
    clientsLock,   \* TRUE while the mutex is held
    generated,     \* how many ids uuid.New() has handed out
    calls,         \* how many calls have been started
    pc,            \* where each thread is in GetTlsClientFromInput
    requestInput,  \* the thread's argument
    sessionId,     \* the thread's newSessionId
    client,        \* the thread's `client, ok := clients[sessionId]`
    ret,           \* what the thread's call returns, and the setters it invoked
    aborted,       \* TRUE once a goroutine has panicked
    created,       \* history: the handles constructed for each session id
    returned,      \* history: the handles returned with a nil error, per session id
    absentAtCall,  \* history: the thread's session id had no entry when it called
    modifyFailed,  \* history: the session ids a modification has failed on
    atLock,        \* history: registry and handles when the thread took the lock
    customClientDefinition,  \* the argument of a getCustomTlsClientProfile call
    customProfile,           \* what that call returned
    buildRequestInput,       \* the argument of a BuildRequest call
    buildRequestOut,         \* what that call returned
    buildResponseArgs,       \* the arguments of a BuildResponse call
    buildResponseOut         \* what that call returned

\* the calls of the resolver and of the translation layer, which do not touch
\* the registry
translation == <<customClientDefinition, customProfile, buildRequestInput, buildRequestOut,
                 buildResponseArgs, buildResponseOut>>

vars == <<clients, handles, clientsLock, generated, calls, pc, requestInput, sessionId,
          client, ret, aborted, created, returned, absentAtCall, modifyFailed, atLock,
          translation>>

\* clients[sessionId] has no entry (ok = false)
Absent == -1

Returns(c, err, setProxy, setFollowRedirect) ==
    [client |-> c, err |-> err, setProxy |-> setProxy,
     setFollowRedirect |-> setFollowRedirect]

NoReturn == Returns(NilClient, NoErr, FALSE, FALSE)

\* the thread does not hold the lock
NotLocked == [clients |-> <<>>, handles |-> <<>>]

\* the package's variables at program start, no call running
InitRegistry ==
    /\ clients = [s \in AllSessionIds |-> Absent]
    /\ handles = <<>>
    /\ clientsLock = FALSE
    /\ generated = 0
    /\ calls = 0
    /\ pc = [t \in Threads |-> "idle"]
    /\ requestInput = [t \in Threads |-> NoInput]
    /\ sessionId = [t \in Threads |-> ""]
    /\ client = [t \in Threads |-> Absent]
    /\ ret = [t \in Threads |-> NoReturn]
    /\ aborted = FALSE
    /\ created = [s \in AllSessionIds |-> {}]
    /\ returned = [s \in AllSessionIds |-> {}]
    /\ absentAtCall = [t \in Threads |-> FALSE]
    /\ modifyFailed = {}
    /\ atLock = [t \in Threads |-> NotLocked]

\* no resolver or translation call in progress
NoTranslation ==
    /\ customClientDefinition = Nil
    /\ customProfile = Nil
    /\ buildRequestInput = Nil
    /\ buildRequestOut = Nil
    /\ buildResponseArgs = Nil
    /\ buildResponseOut = Nil

Init == InitRegistry /\ NoTranslation

(* ----------------- the client library's handle operations --------------- *)

\* tls_client.NewHttpClient(logger, options...): a new client object, or
\* (nil, error) when the proxy option cannot be dialed.
NewHttpClient(hs, options) ==
    IF options.proxyUrl # "" /\ ProxyRejected(options.proxyUrl)
    THEN [handles |-> hs, client |-> NilClient, err |-> ErrConstruct]
    ELSE [handles |-> Append(hs, [proxy |-> options.proxyUrl,
                                  followRedirects |-> options.followRedirects,
                                  profile |-> options.clientProfile,
                                  timeoutSeconds |-> options.timeoutSeconds,
                                  insecureSkipVerify |-> options.insecureSkipVerify]),
          client |-> Len(hs) + 1,
          err |-> NoErr]

GetProxy(hs, c) == hs[c].proxy

GetFollowRedirect(hs, c) == hs[c].followRedirects

\* client.SetProxy(url): a rejected URL is reported and the proxy is left
\* as it was.
SetProxy(hs, c, url) ==
    IF ProxyRejected(url)
    THEN [handles |-> hs, err |-> "proxy rejected"]
    ELSE [handles |-> [hs EXCEPT ![c].proxy = url], err |-> NoErr]

SetFollowRedirect(hs, c, followRedirects) ==
    [hs EXCEPT ![c].followRedirects = followRedirects]

(* --------------------------- handleModification ------------------------ *)

\* handleModification without its follow-redirects block
handleModificationNoFlip(hs, c, proxyUrl, followRedirects) ==
    IF c = NilClient
    THEN [handles |-> hs, client |-> NilClient, changed |-> FALSE, err |-> NoErr,
          panic |-> TRUE, setProxy |-> FALSE, setFollowRedirect |-> FALSE]
    ELSE
    LET setNeeded == proxyUrl # Nil /\ GetProxy(hs, c) # Deref(proxyUrl)
        set == IF setNeeded
               THEN SetProxy(hs, c, Deref(proxyUrl))
               ELSE [handles |-> hs, err |-> NoErr]
    IN  IF set.err # NoErr
        THEN [handles |-> set.handles, client |-> NilClient, changed |-> FALSE,
              err |-> ErrModify, panic |-> FALSE,
              setProxy |-> TRUE, setFollowRedirect |-> FALSE]
        ELSE [handles |-> set.handles, client |-> c, changed |-> setNeeded,
              err |-> NoErr, panic |-> FALSE,
              setProxy |-> setNeeded, setFollowRedirect |-> FALSE]

\* handleModification reading an absent proxy URL as the empty URL
handleModificationClearsProxy(hs, c, proxyUrl, followRedirects) ==
    IF c = NilClient
    THEN [handles |-> hs, client |-> NilClient, changed |-> FALSE, err |-> NoErr,
          panic |-> TRUE, setProxy |-> FALSE, setFollowRedirect |-> FALSE]
    ELSE
    LET url == IF proxyUrl = Nil THEN "" ELSE Deref(proxyUrl)
        setNeeded == GetProxy(hs, c) # url
        set == IF setNeeded
               THEN SetProxy(hs, c, url)
               ELSE [handles |-> hs, err |-> NoErr]
    IN  IF set.err # NoErr
        THEN [handles |-> set.handles, client |-> NilClient, changed |-> FALSE,
              err |-> ErrModify, panic |-> FALSE,
              setProxy |-> TRUE, setFollowRedirect |-> FALSE]
        ELSE
        LET flip == GetFollowRedirect(set.handles, c) # followRedirects IN
        [handles |-> IF flip
                     THEN SetFollowRedirect(set.handles, c, followRedirects)
                     ELSE set.handles,
         client |-> c,
         changed |-> setNeeded \/ flip,
         err |-> NoErr,
         panic |-> FALSE,
         setProxy |-> setNeeded,
         setFollowRedirect |-> flip]

\* handleModification with the follow-redirects block ahead of the proxy block
handleModificationFlipFirst(hs, c, proxyUrl, followRedirects) ==
    IF c = NilClient
    THEN [handles |-> hs, client |-> NilClient, changed |-> FALSE, err |-> NoErr,
          panic |-> TRUE, setProxy |-> FALSE, setFollowRedirect |-> FALSE]
    ELSE
    LET flip == GetFollowRedirect(hs, c) # followRedirects
        flipped == IF flip THEN SetFollowRedirect(hs, c, followRedirects) ELSE hs
        setNeeded == proxyUrl # Nil /\ GetProxy(flipped, c) # Deref(proxyUrl)
        set == IF setNeeded
               THEN SetProxy(flipped, c, Deref(proxyUrl))
               ELSE [handles |-> flipped, err |-> NoErr]
    IN  IF set.err # NoErr
        THEN [handles |-> set.handles, client |-> NilClient, changed |-> FALSE,
              err |-> ErrModify, panic |-> FALSE,
              setProxy |-> TRUE, setFollowRedirect |-> flip]
        ELSE [handles |-> set.handles, client |-> c, changed |-> setNeeded \/ flip,
              err |-> NoErr, panic |-> FALSE,
              setProxy |-> setNeeded, setFollowRedirect |-> flip]

\* handleModification(client, proxyUrl, followRedirects) on the heap hs.
\* A method call on the nil interface value panics.  setProxy and
\* setFollowRedirect tell which setters the call invoked.
handleModification(hs, c, proxyUrl, followRedirects) ==
    IF c = NilClient
    THEN [handles |-> hs, client |-> NilClient, changed |-> FALSE, err |-> NoErr,
          panic |-> TRUE, setProxy |-> FALSE, setFollowRedirect |-> FALSE]
    ELSE
    LET setNeeded == proxyUrl # Nil /\ GetProxy(hs, c) # Deref(proxyUrl)
        set == IF setNeeded
               THEN SetProxy(hs, c, Deref(proxyUrl))
               ELSE [handles |-> hs, err |-> NoErr]
    IN  IF set.err # NoErr
        THEN [handles |-> set.handles, client |-> NilClient, changed |-> FALSE,
              err |-> ErrModify, panic |-> FALSE,
              setProxy |-> TRUE, setFollowRedirect |-> FALSE]
        ELSE
        LET flip == GetFollowRedirect(set.handles, c) # followRedirects IN
        [handles |-> IF flip
                     THEN SetFollowRedirect(set.handles, c, followRedirects)
                     ELSE set.handles,
         client |-> c,
         changed |-> setNeeded \/ flip,
         err |-> NoErr,
         panic |-> FALSE,
         setProxy |-> setNeeded,
         setFollowRedirect |-> flip]

(* ------------------------ GetTlsClientFromInput ------------------------ *)

\* sessionId != nil && *sessionId != ""
HasSessionId(in) == in.SessionId # Nil /\ Deref(in.SessionId) # ""

\* Validate without the check for an input that sets neither field
ValidateBothOnly(in) ==
    IF in.TLSClientIdentifier # "" /\ in.CustomTlsClient # Nil THEN ErrBoth
    ELSE NoErr

\* the two checks made before getTlsClient is called
Validate(in) ==
    IF in.TLSClientIdentifier # "" /\ in.CustomTlsClient # Nil THEN ErrBoth
    ELSE IF in.TLSClientIdentifier = "" /\ in.CustomTlsClient = Nil THEN ErrNeither
    ELSE NoErr

\* The session ids a caller can put in its input: its own, and the generated
\* ones a call has handed back.
KnownSessionIds ==
    SessionIds \cup
    ({UuidSeq[i] : i \in 1..generated} \
     {sessionId[t] : t \in {u \in DOMAIN pc : pc[u] \notin {"idle", "ret"}
                                               /\ ~HasSessionId(requestInput[u])}})

\* a newSessionId that is never overwritten with the caller's id
NewSessionIdNotOverwritten(in) ==
    UuidSeq[IF generated < Len(UuidSeq) THEN generated + 1 ELSE Len(UuidSeq)]

\* newSessionId: the caller's id when it is set and not empty, else the id
\* uuid.New() hands out, one that nobody holds yet
NewSessionId(in) ==
    IF HasSessionId(in) THEN Deref(in.SessionId) ELSE UuidSeq[generated + 1]

\* Entry of GetTlsClientFromInput up to the call of getTlsClient: pick the
\* session id, validate; an invalid input returns at once.
Call(t, in) ==
    /\ ~aborted
    /\ pc[t] = "idle"
    /\ calls < MaxCalls
    /\ HasSessionId(in) \/ generated < Len(UuidSeq)
    /\ LET newSessionId == NewSessionId(in)
           clientErr == Validate(in)
       IN  /\ generated' = IF HasSessionId(in) THEN generated ELSE generated + 1
           /\ calls' = calls + 1
           /\ sessionId' = [sessionId EXCEPT ![t] = newSessionId]
           /\ requestInput' = [requestInput EXCEPT ![t] = in]
           /\ absentAtCall' = [absentAtCall EXCEPT ![t] = clients[newSessionId] = Absent]
           /\ IF clientErr # NoErr
              THEN /\ pc' = [pc EXCEPT ![t] = "ret"]
                   /\ ret' = [ret EXCEPT ![t] = Returns(NilClient, clientErr, FALSE, FALSE)]
              ELSE /\ pc' = [pc EXCEPT ![t] = "lock"]
                   /\ UNCHANGED ret
    /\ UNCHANGED <<translation, atLock>>
    /\ UNCHANGED <<clients, handles, clientsLock, client, aborted, created, returned,
                   modifyFailed>>

(* ------------------------------ getTlsClient --------------------------- *)

\* getTlsClient without its clientsLock.Lock()
LockIgnored == TRUE

\* clientsLock.Lock() can return
LockFree == clientsLock = FALSE

\* a lookup that never finds the entry
LookupMiss(sid) == Absent

\* client, ok := clients[sessionId]
Lookup(sid) == clients[sid]

\* clientsLock.Lock(), then the map read that picks the branch
Lock(t) ==
    /\ ~aborted
    /\ pc[t] = "lock"
    /\ LockFree
    /\ clientsLock' = TRUE
    /\ client' = [client EXCEPT ![t] = Lookup(sessionId[t])]
    /\ pc' = [pc EXCEPT ![t] = IF Lookup(sessionId[t]) # Absent THEN "modify" ELSE "create"]
    /\ atLock' = [atLock EXCEPT ![t] = [clients |-> clients, handles |-> handles]]
    /\ UNCHANGED translation
    /\ UNCHANGED <<clients, handles, generated, calls, requestInput, sessionId, ret, aborted,
                   created, returned, absentAtCall, modifyFailed>>

\* the options getTlsClient passes to NewHttpClient
ClientOptions(in, clientProfile) ==
    [timeoutSeconds |-> IF in.TimeoutSeconds # 0 THEN in.TimeoutSeconds
                        ELSE DefaultTimeoutSeconds,
     clientProfile |-> clientProfile,
     followRedirects |-> in.FollowRedirects,
     insecureSkipVerify |-> in.InsecureSkipVerify,
     proxyUrl |-> IF in.ProxyUrl # Nil /\ Deref(in.ProxyUrl) # ""
                  THEN Deref(in.ProxyUrl) ELSE ""]

\* the profile getTlsClient resolves for a new session
ResolveProfile(in) ==
    LET custom == getCustomTlsClientProfile(Deref(in.CustomTlsClient))
        fromCustom == IF in.CustomTlsClient # Nil
                      THEN NewClientProfile(custom.clientHelloId, custom.h2Settings,
                                            custom.h2SettingsOrder, custom.pseudoHeaderOrder,
                                            custom.connectionFlow, custom.priorityFrames)
                      ELSE ZeroClientProfile
    IN  IF in.CustomTlsClient # Nil /\ custom.err # NoErr
        THEN [profile |-> ZeroClientProfile, err |-> ErrCustom]
        ELSE [profile |-> IF in.TLSClientIdentifier # ""
                          THEN getTlsClientProfile(in.TLSClientIdentifier)
                          ELSE fromCustom,
              err |-> NoErr]

\* the `if ok` branch storing the result before it looks at the error
StoreModifiedAlways(sid, m) == [clients EXCEPT ![sid] = m.client]

\* the registry after the `if ok` branch, m being handleModification's result
StoreModified(sid, m) ==
    IF m.err = NoErr /\ m.changed
    THEN [clients EXCEPT ![sid] = m.client]
    ELSE clients

\* getTlsClient resolving the profile ahead of the lookup, so that it also
\* runs for a session that exists
ModifyResolvesFirst(t) ==
    /\ ~aborted
    /\ pc[t] = "modify"
    /\ LET m == handleModification(handles, client[t], requestInput[t].ProxyUrl,
                                   requestInput[t].FollowRedirects)
       IN  IF ResolveProfile(requestInput[t]).err # NoErr
           THEN /\ ret' = [ret EXCEPT ![t] = Returns(NilClient, ErrCustom, FALSE, FALSE)]
                /\ pc' = [pc EXCEPT ![t] = "unlock"]
                /\ UNCHANGED <<clients, handles, modifyFailed, aborted, clientsLock>>
           ELSE IF m.panic
           THEN /\ aborted' = TRUE
                /\ clientsLock' = FALSE
                /\ pc' = [pc EXCEPT ![t] = "panic"]
                /\ UNCHANGED <<clients, handles, ret, modifyFailed>>
           ELSE /\ handles' = m.handles
                /\ clients' = StoreModified(sessionId[t], m)
                /\ ret' = [ret EXCEPT ![t] = Returns(m.client, m.err, m.setProxy,
                                                     m.setFollowRedirect)]
                /\ modifyFailed' = IF m.err # NoErr
                                   THEN modifyFailed \cup {sessionId[t]}
                                   ELSE modifyFailed
                /\ pc' = [pc EXCEPT ![t] = "unlock"]
                /\ UNCHANGED <<aborted, clientsLock>>
    /\ UNCHANGED <<translation, atLock>>
    /\ UNCHANGED <<generated, calls, requestInput, sessionId, client, created, returned,
                   absentAtCall>>

\* the `if ok` branch: modify the existing client and return it
Modify(t) ==
    /\ ~aborted
    /\ pc[t] = "modify"
    /\ LET m == handleModification(handles, client[t], requestInput[t].ProxyUrl,
                                   requestInput[t].FollowRedirects)
       IN  IF m.panic
           THEN \* nil dereference: the deferred Unlock runs, the process dies
                /\ aborted' = TRUE
                /\ clientsLock' = FALSE
                /\ pc' = [pc EXCEPT ![t] = "panic"]
                /\ UNCHANGED <<clients, handles, ret, modifyFailed>>
           ELSE /\ handles' = m.handles
                /\ clients' = StoreModified(sessionId[t], m)
                /\ ret' = [ret EXCEPT ![t] = Returns(m.client, m.err, m.setProxy,
                                                     m.setFollowRedirect)]
                /\ modifyFailed' = IF m.err # NoErr
                                   THEN modifyFailed \cup {sessionId[t]}
                                   ELSE modifyFailed
                /\ pc' = [pc EXCEPT ![t] = "unlock"]
                /\ UNCHANGED <<aborted, clientsLock>>
    /\ UNCHANGED <<translation, atLock>>
    /\ UNCHANGED <<generated, calls, requestInput, sessionId, client, created, returned,
                   absentAtCall>>

\* the creation branch without its `clients[sessionId] = tlsClient`
StoreCreatedNowhere(sid, made) == clients

\* the registry after `clients[sessionId] = tlsClient`
StoreCreated(sid, made) == [clients EXCEPT ![sid] = made.client]

\* the branch for an absent session id: resolve the profile, construct, insert
Create(t) ==
    /\ ~aborted
    /\ pc[t] = "create"
    /\ LET in == requestInput[t]
           resolved == ResolveProfile(in)
           made == NewHttpClient(handles, ClientOptions(in, resolved.profile))
       IN  IF resolved.err # NoErr
           THEN /\ ret' = [ret EXCEPT ![t] = Returns(NilClient, resolved.err, FALSE, FALSE)]
                /\ UNCHANGED <<clients, handles, created>>
           ELSE /\ handles' = made.handles
                /\ clients' = StoreCreated(sessionId[t], made)
                /\ created' = [created EXCEPT ![sessionId[t]] =
                                  IF made.client # NilClient THEN @ \cup {made.client} ELSE @]
                /\ ret' = [ret EXCEPT ![t] = Returns(made.client, made.err, FALSE, FALSE)]
    /\ pc' = [pc EXCEPT ![t] = "unlock"]
    /\ UNCHANGED <<translation, atLock>>
    /\ UNCHANGED <<clientsLock, generated, calls, requestInput, sessionId, client, aborted,
                   returned, absentAtCall, modifyFailed>>

\* the deferred clientsLock.Unlock(), then lines 39-44 of GetTlsClientFromInput:
\* an error from getTlsClient is wrapped and returned with a nil client
Unlock(t) ==
    /\ ~aborted
    /\ pc[t] = "unlock"
    /\ clientsLock' = FALSE
    /\ ret' = [ret EXCEPT ![t] = IF @.err # NoErr
                                 THEN [@ EXCEPT !.client = NilClient]
                                 ELSE @]
    /\ returned' = [returned EXCEPT ![sessionId[t]] =
                       IF ret[t].err = NoErr THEN @ \cup {ret[t].client} ELSE @]
    /\ pc' = [pc EXCEPT ![t] = "ret"]
    /\ atLock' = [atLock EXCEPT ![t] = NotLocked]
    /\ UNCHANGED translation
    /\ UNCHANGED <<clients, handles, generated, calls, requestInput, sessionId, client, aborted,
                   created, absentAtCall, modifyFailed>>

\* the caller has its (client, session id, error) and is free to call again
Return(t) ==
    /\ ~aborted
    /\ pc[t] = "ret"
    /\ pc' = [pc EXCEPT ![t] = "idle"]
    /\ requestInput' = [requestInput EXCEPT ![t] = NoInput]
    /\ sessionId' = [sessionId EXCEPT ![t] = ""]
    /\ client' = [client EXCEPT ![t] = Absent]
    /\ ret' = [ret EXCEPT ![t] = NoReturn]
    /\ absentAtCall' = [absentAtCall EXCEPT ![t] = FALSE]
    /\ UNCHANGED <<translation, atLock>>
    /\ UNCHANGED <<clients, handles, clientsLock, generated, calls, aborted, created,
                   returned, modifyFailed>>

\* the inputs built from `templates` with every session id a caller can name,
\* and with none
WithSessionIds(templates) ==
    {[tm EXCEPT !.SessionId = sid] :
        tm \in templates,
        sid \in {Nil, Ptr("")} \cup {Ptr(k) : k \in KnownSessionIds}}

\* one caller
Next ==
    \/ \E in \in WithSessionIds(SequentialInputs) : Call("t1", in)
    \/ Lock("t1")
    \/ Modify("t1")
    \/ Create("t1")
    \/ Unlock("t1")
    \/ Return("t1")

Spec == Init /\ [][Next]_vars

\* two callers on their own threads
NextConcurrent ==
    \/ \E t \in Threads : \E in \in WithSessionIds(ConcurrentInputs) : Call(t, in)
    \/ \E t \in Threads : Lock(t)
    \/ \E t \in Threads : Modify(t)
    \/ \E t \in Threads : Create(t)
    \/ \E t \in Threads : Unlock(t)
    \/ \E t \in Threads : Return(t)

SpecConcurrent == Init /\ [][NextConcurrent]_vars

\* the proxy block of handleModification, as a step of its own
ModifyProxy(t) ==
    /\ ~aborted
    /\ pc[t] = "modify"
    /\ LET c == client[t]
           proxyUrl == requestInput[t].ProxyUrl
       IN  IF c = NilClient
           THEN /\ aborted' = TRUE
                /\ clientsLock' = FALSE
                /\ pc' = [pc EXCEPT ![t] = "panic"]
                /\ UNCHANGED <<handles, ret, modifyFailed>>
           ELSE LET setNeeded == proxyUrl # Nil /\ GetProxy(handles, c) # Deref(proxyUrl)
                    set == IF setNeeded
                           THEN SetProxy(handles, c, Deref(proxyUrl))
                           ELSE [handles |-> handles, err |-> NoErr]
                IN  /\ handles' = set.handles
                    /\ IF set.err # NoErr
                       THEN /\ ret' = [ret EXCEPT ![t] = Returns(NilClient, ErrModify, TRUE, FALSE)]
                            /\ modifyFailed' = modifyFailed \cup {sessionId[t]}
                            /\ pc' = [pc EXCEPT ![t] = "unlock"]
                       ELSE /\ ret' = [ret EXCEPT ![t] = Returns(c, NoErr, setNeeded, FALSE)]
                            /\ pc' = [pc EXCEPT ![t] = "redirect"]
                            /\ UNCHANGED modifyFailed
                    /\ UNCHANGED <<aborted, clientsLock>>
    /\ UNCHANGED <<translation, atLock>>
    /\ UNCHANGED <<clients, generated, calls, requestInput, sessionId, client, created,
                   returned, absentAtCall>>

\* the follow-redirects block of handleModification and lines 121-125 of
\* getTlsClient, as a step of its own
ModifyRedirect(t) ==
    /\ ~aborted
    /\ pc[t] = "redirect"
    /\ LET c == client[t]
           flip == GetFollowRedirect(handles, c) # requestInput[t].FollowRedirects
           m == [client |-> c, changed |-> ret[t].setProxy \/ flip, err |-> NoErr]
       IN  /\ handles' = IF flip
                         THEN SetFollowRedirect(handles, c, requestInput[t].FollowRedirects)
                         ELSE handles
           /\ clients' = StoreModified(sessionId[t], m)
           /\ ret' = [ret EXCEPT ![t] = Returns(c, NoErr, ret[t].setProxy, flip)]
    /\ pc' = [pc EXCEPT ![t] = "unlock"]
    /\ UNCHANGED <<translation, atLock>>
    /\ UNCHANGED <<clientsLock, generated, calls, requestInput, sessionId, client, aborted,
                   created, returned, absentAtCall, modifyFailed>>

\* two callers on their own threads, every setter call a step
NextAtomic ==
    \/ \E t \in Threads : \E in \in WithSessionIds(ConcurrentInputs) : Call(t, in)
    \/ \E t \in Threads : Lock(t)
    \/ \E t \in Threads : ModifyProxy(t)
    \/ \E t \in Threads : ModifyRedirect(t)
    \/ \E t \in Threads : Create(t)
    \/ \E t \in Threads : Unlock(t)
    \/ \E t \in Threads : Return(t)

SpecAtomic == Init /\ [][NextAtomic]_vars

\* two callers on threads the scheduler keeps running: a goroutine that can
\* take a step of getTlsClient takes it, and a goroutine waiting in
\* clientsLock.Lock() gets the mutex once it stays free
SpecFair ==
    /\ Init
    /\ [][NextConcurrent]_vars
    /\ \A t \in Threads :
          /\ WF_vars(Lock(t))
          /\ WF_vars(Modify(t))
          /\ WF_vars(Create(t))
          /\ WF_vars(Unlock(t))

\* the inputs built from `templates` that all name the session id sid
OnSession(templates, sid) == {[tm EXCEPT !.SessionId = Ptr(sid)] : tm \in templates}

\* one caller that keeps to one session id
NextAttributes ==
    \/ \E in \in OnSession(AttributeInputs, "s1") : Call("t1", in)
    \/ Lock("t1")
    \/ Modify("t1")
    \/ Create("t1")
    \/ Unlock("t1")
    \/ Return("t1")

SpecAttributes == Init /\ [][NextAttributes]_vars

(* ------------------------- the resolver on its own ---------------------- *)

\* longest settings order drawn
MaxOrderLen == 3

\* the sequences over S of length at most n
SeqsUpTo(S, n) == UNION {[1..k -> S] : k \in 0..n}

PriorityFrame(streamId, weight) ==
    [StreamID |-> streamId,
     PriorityParam |-> [StreamDep |-> 0, Exclusive |-> FALSE, Weight |-> weight]]

\* the custom definitions a caller passes: settings orders that are unsorted
\* and that repeat an id, repeated pseudo headers and priority frames
CustomDefinitions ==
    [Ja3String : {"771,4865,0-23,29,0", "not-a-ja3"},
     H2Settings : {<<>>, <<65536, 0>>, [k \in {4, 65535} |-> k + 1]},
     H2SettingsOrder : SeqsUpTo({1, 2, 4}, MaxOrderLen),
     PseudoHeaderOrder : {<<>>, <<":method", ":path">>, <<":path", ":method">>,
                          <<":path", ":path">>},
     ConnectionFlow : {0, 15},
     PriorityFrames : {<<>>, <<PriorityFrame(3, 200)>>,
                       <<PriorityFrame(5, 100), PriorityFrame(3, 200)>>,
                       <<PriorityFrame(3, 200), PriorityFrame(3, 200)>>}]

InitResolver ==
    /\ InitRegistry
    /\ customClientDefinition \in {Ptr(d) : d \in CustomDefinitions}
    /\ customProfile = Nil
    /\ buildRequestInput = Nil
    /\ buildRequestOut = Nil
    /\ buildResponseArgs = Nil
    /\ buildResponseOut = Nil

\* a call of getCustomTlsClientProfile
ResolveCustom ==
    /\ customClientDefinition # Nil
    /\ customProfile = Nil
    /\ customProfile' = Ptr(getCustomTlsClientProfile(Deref(customClientDefinition)))
    /\ UNCHANGED <<clients, handles, clientsLock, generated, calls, pc, requestInput,
                   sessionId, client, ret, aborted, created, returned, absentAtCall,
                   modifyFailed, atLock, customClientDefinition, buildRequestInput,
                   buildRequestOut, buildResponseArgs, buildResponseOut>>

NextResolver == ResolveCustom

SpecResolver == InitResolver /\ [][NextResolver]_vars

(* --------------------------- request translation ----------------------- *)

ErrNoUrlOrMethod == "no request url or request method provided"
ErrNoContentType ==
    "if you are using a request post body please specify a Content-Type Header"
ErrCreateRequest == "failed to create request object"

\* http.HeaderOrderKey, the header-map key the transport reads the order from
HeaderOrderKey == "Header-Order:"

\* methods http.NewRequest refuses (not a token)
InvalidMethods == {"B D"}

\* URLs url.Parse refuses
UnparsableUrls == {"::bad"}

\* http.NewRequest(method, url, body): a request with an empty header set, or
\* an error for a method that is no token or a URL that does not parse; an
\* empty method means GET.
NewRequest(method, url, body) ==
    IF method \in InvalidMethods \/ url \in UnparsableUrls
    THEN [req |-> Nil, err |-> "net/http: invalid method or url"]
    ELSE [req |-> Ptr([Method |-> IF method = "" THEN "GET" ELSE method,
                       URL |-> url, Body |-> body, Header |-> <<>>]),
          err |-> NoErr]

\* the method/url check looking at the method alone
MissingMethodOnly(input) == input.RequestMethod = ""

\* input.RequestMethod == "" || input.RequestUrl == ""
MissingUrlOrMethod(input) == input.RequestMethod = "" \/ input.RequestUrl = ""

\* the content-type lookup with the lower-case key alone
HasContentTypeLowerOnly(headers) == "content-type" \in DOMAIN headers

\* ok1 || ok2: one of the two spellings is a key of the map
HasContentType(headers) ==
    "content-type" \in DOMAIN headers \/ "Content-Type" \in DOMAIN headers

\* input.RequestBody != nil && *input.RequestBody != ""
HasBody(input) == input.RequestBody # Nil /\ Deref(input.RequestBody) # ""

\* the http.Header BuildRequest fills: one single-valued entry per supplied
\* header, then the header order under HeaderOrderKey
RequestHeaders(input) ==
    [key \in DOMAIN input.Headers \cup {HeaderOrderKey} |->
        IF key = HeaderOrderKey THEN input.HeaderOrder ELSE <<input.Headers[key]>>]

\* BuildRequest(input): the request and the error it returns, and how many
\* times it has called http.NewRequest
BuildRequest(input) ==
    IF MissingUrlOrMethod(input)
    THEN [tlsReq |-> Nil, err |-> ErrNoUrlOrMethod, newRequests |-> 0]
    ELSE IF HasBody(input) /\ ~HasContentType(input.Headers)
    THEN [tlsReq |-> Nil, err |-> ErrNoContentType, newRequests |-> 0]
    ELSE LET made == NewRequest(input.RequestMethod, input.RequestUrl,
                                IF HasBody(input) THEN input.RequestBody ELSE Nil)
         IN  IF made.err # NoErr
             THEN [tlsReq |-> Nil, err |-> ErrCreateRequest, newRequests |-> 1]
             ELSE [tlsReq |-> Ptr([Deref(made.req) EXCEPT !.Header = RequestHeaders(input)]),
                   err |-> NoErr, newRequests |-> 1]

\* longest header order drawn
MaxHeaderOrderLen == 2

HeaderNames == {"content-type", "Content-Type", "CONTENT-TYPE", "accept", HeaderOrderKey}

\* the value a caller gives the header named key
HeaderValue(key) ==
    IF key = "accept" THEN "*/*" ELSE IF key = HeaderOrderKey THEN "accept" ELSE "application/json"

\* the BuildRequest arguments drawn: the fields of RequestInput it reads
BuildRequestInputs ==
    [RequestMethod : {"", "POST", "B D"},
     RequestUrl : {"", "https://example.com", "::bad"},
     RequestBody : {Nil, Ptr(""), Ptr("{}")},
     Headers : {[key \in K |-> HeaderValue(key)] : K \in SUBSET HeaderNames},
     HeaderOrder : SeqsUpTo({"accept", "content-type"}, MaxHeaderOrderLen)]

InitRequest ==
    /\ InitRegistry
    /\ customClientDefinition = Nil
    /\ customProfile = Nil
    /\ buildRequestInput \in {Ptr(in) : in \in BuildRequestInputs}
    /\ buildRequestOut = Nil
    /\ buildResponseArgs = Nil
    /\ buildResponseOut = Nil

\* a call of BuildRequest
BuildRequestCall ==
    /\ buildRequestInput # Nil
    /\ buildRequestOut = Nil
    /\ buildRequestOut' = Ptr(BuildRequest(Deref(buildRequestInput)))
    /\ UNCHANGED <<clients, handles, clientsLock, generated, calls, pc, requestInput,
                   sessionId, client, ret, aborted, created, returned, absentAtCall,
                   modifyFailed, atLock, customClientDefinition, customProfile,
                   buildRequestInput,
                   buildResponseArgs, buildResponseOut>>

NextRequest == BuildRequestCall

SpecRequest == InitRequest /\ [][NextRequest]_vars

(* --------------------------- response translation ---------------------- *)

ErrRead == "unexpected EOF"

\* cookie names http.Cookie.String() serializes; for any other it returns ""
ValidCookieNames == {"a", "b"}

\* c.String(): the cookie as one string
CookieString(c) == IF c.Name \in ValidCookieNames THEN c.Name \o "=" \o c.Value ELSE ""

\* ret[name] = value on a Go map
MapSet(m, key, value) == [k \in DOMAIN m \cup {key} |-> IF k = key THEN value ELSE m[k]]

\* the map after the first n iterations of cookiesToMap's loop
RECURSIVE cookiesToMapLoop(_, _)
cookiesToMapLoop(cookies, n) ==
    IF n = 0
    THEN <<>>
    ELSE MapSet(cookiesToMapLoop(cookies, n - 1), cookies[n].Name, CookieString(cookies[n]))

\* the cookie map keeping the first cookie of a name
cookiesToMapFirstWins(cookies) ==
    [name \in {cookies[i].Name : i \in 1..Len(cookies)} |->
        CookieString(cookies[CHOOSE i \in 1..Len(cookies) :
            /\ cookies[i].Name = name
            /\ \A j \in 1..(i - 1) : cookies[j].Name # name])]

cookiesToMap(cookies) == cookiesToMapLoop(cookies, Len(cookies))

\* ioutil.ReadAll(resp.Body): the bytes read and the body drained, or an error
ReadAll(body) ==
    IF body.failsRead
    THEN [bytes |-> "", err |-> ErrRead, body |-> body]
    ELSE [bytes |-> body.content, err |-> NoErr, body |-> [body EXCEPT !.drained = TRUE]]

\* resp.Body.Close()
Close(body) == [body EXCEPT !.closes = body.closes + 1]

\* the zero Response
ZeroResponse ==
    [SessionId |-> "", Status |-> 0, Body |-> "", Headers |-> <<>>, Cookies |-> <<>>]

\* BuildResponse closing the body on the success path alone
BuildResponseNoDefer(id, resp, cookies) ==
    LET read == ReadAll(resp.Body) IN
    IF read.err # NoErr
    THEN [response |-> ZeroResponse, err |-> read.err, body |-> read.body]
    ELSE [response |-> [SessionId |-> id, Status |-> resp.StatusCode, Body |-> read.bytes,
                        Headers |-> resp.Header, Cookies |-> cookiesToMap(cookies)],
          err |-> NoErr, body |-> Close(read.body)]

\* BuildResponse(sessionId, resp, cookies): what it returns, and the body
\* after the deferred Close has run
BuildResponse(id, resp, cookies) ==
    LET read == ReadAll(resp.Body) IN
    IF read.err # NoErr
    THEN [response |-> ZeroResponse, err |-> read.err, body |-> Close(read.body)]
    ELSE [response |-> [SessionId |-> id, Status |-> resp.StatusCode, Body |-> read.bytes,
                        Headers |-> resp.Header, Cookies |-> cookiesToMap(cookies)],
          err |-> NoErr, body |-> Close(read.body)]

\* most cookies drawn
MaxCookies == 2

\* the cookies the jar hands over, one with a name String() does not serialize
Cookies == [Name : {"a", "b"}, Value : {"1", "2"}] \cup {[Name |-> "b d", Value |-> "1"]}

\* the BuildResponse arguments drawn: the response's body is open and unread
BuildResponseInputs ==
    [sessionId : {"", "s1"},
     resp : [StatusCode : {200, 404},
             Header : {<<>>, [k \in {"Set-Cookie"} |-> <<"a=1", "a=2">>]},
             Body : [content : {"", "ok"}, failsRead : BOOLEAN, drained : {FALSE},
                     closes : {0}]],
     cookies : SeqsUpTo(Cookies, MaxCookies)]

InitResponse ==
    /\ InitRegistry
    /\ customClientDefinition = Nil
    /\ customProfile = Nil
    /\ buildRequestInput = Nil
    /\ buildRequestOut = Nil
    /\ buildResponseArgs \in {Ptr(a) : a \in BuildResponseInputs}
    /\ buildResponseOut = Nil

\* a call of BuildResponse
BuildResponseCall ==
    /\ buildResponseArgs # Nil
    /\ buildResponseOut = Nil
    /\ LET args == Deref(buildResponseArgs)
           out == BuildResponse(args.sessionId, args.resp, args.cookies)
       IN  /\ buildResponseOut' = Ptr([response |-> out.response, err |-> out.err])
           /\ buildResponseArgs' = Ptr([args EXCEPT !.resp.Body = out.body])
    /\ UNCHANGED <<clients, handles, clientsLock, generated, calls, pc, requestInput,
                   sessionId, client, ret, aborted, created, returned, absentAtCall,
                   modifyFailed, atLock, customClientDefinition, customProfile,
                   buildRequestInput,
                   buildRequestOut>>

NextResponse == BuildResponseCall

SpecResponse == InitResponse /\ [][NextResponse]_vars

(* ================================ claims ================================ *)

\* thread t takes the step that ends the `if ok` branch of getTlsClient
ModifyStep(t) == pc[t] = "modify" /\ pc'[t] = "unlock"

\* thread t takes the step that ends the creation branch of getTlsClient
CreateStep(t) == pc[t] = "create" /\ pc'[t] = "unlock"

\* thread t holds the result of a call that returned a client and no error
Succeeded(t) == pc[t] = "ret" /\ ret[t].err = NoErr

\* C1: any two successful calls made with the same session id return the
\* identical client handle, whatever calls on other session ids come between:
\* the handles returned without error for a session id are never two.
C1_ReuseInvariant ==
    \A s \in AllSessionIds : Cardinality(returned[s]) <= 1

\* C1 witness: a second successful call on a session returned the handle that
\* was returned before, after a call created another session in between.
C1_Witness ==
    /\ Succeeded("t1")
    /\ client["t1"] # Absent
    /\ returned[sessionId["t1"]] = {ret["t1"].client}
    /\ \E o \in AllSessionIds \ {sessionId["t1"]} : returned[o] # {}

InvalidInput(in) ==
    \/ in.TLSClientIdentifier # "" /\ in.CustomTlsClient # Nil
    \/ in.TLSClientIdentifier = "" /\ in.CustomTlsClient = Nil

\* C3: a call whose input sets both the identifier and the custom client, or
\* neither, returns an error and a nil handle at once; the registry, every
\* handle and the lock are as they were.
C3_InvalidInputRejected ==
    [][\A t \in Threads :
          (pc[t] = "idle" /\ pc'[t] # "idle" /\ InvalidInput(requestInput'[t]))
          => /\ pc'[t] = "ret"
             /\ ret'[t].client = NilClient
             /\ ret'[t].err # NoErr
             /\ clients' = clients
             /\ handles' = handles
             /\ clientsLock' = clientsLock]_vars

\* C3 witness: a call naming an existing session with both fields set has
\* returned its error.
C3_Witness ==
    /\ pc["t1"] = "ret"
    /\ InvalidInput(requestInput["t1"])
    /\ requestInput["t1"].CustomTlsClient # Nil
    /\ ret["t1"].err # NoErr
    /\ clients[sessionId["t1"]] \notin {Absent, NilClient}

\* C4: when creating the client for an absent session id fails, the call
\* returns an error and the registry has no entry for the id.
C4_NoEntryOnFailedCreation ==
    \A t \in Threads :
        (pc[t] \in {"unlock", "ret"} /\ client[t] = Absent /\ ret[t].err # NoErr)
        => clients[sessionId[t]] = Absent

\* C5: every call returns a live handle and no error, or no handle and an
\* error; no call aborts on a registry entry that is not a live client.
C5_NoPartialSuccess ==
    /\ ~aborted
    /\ \A t \in Threads :
          pc[t] = "ret" =>
              \/ ret[t].err = NoErr /\ ret[t].client \in 1..Len(handles)
              \/ ret[t].err # NoErr /\ ret[t].client = NilClient

\* the proxy check of a call with input `in` on handle c leaves the proxy alone
ProxyLeftAlone(in, c) ==
    in.ProxyUrl = Nil \/ Deref(in.ProxyUrl) = handles[c].proxy

\* C6: when the critical section of a successful call ends, the returned
\* handle's follow-redirects flag is the requested one and, if a proxy URL was
\* supplied, its proxy is that URL; on reuse the proxy setter ran exactly when
\* a URL was supplied and differed, the redirect setter exactly when the flag
\* differed.
C6_RequestedSettingsApplied ==
    [][\A t \in Threads :
          ((ModifyStep(t) \/ CreateStep(t)) /\ ret'[t].err = NoErr)
          => LET in == requestInput[t]
                 h == ret'[t].client
             IN  /\ h \in 1..Len(handles')
                 /\ handles'[h].followRedirects = in.FollowRedirects
                 /\ in.ProxyUrl # Nil => handles'[h].proxy = Deref(in.ProxyUrl)
                 /\ ModifyStep(t) =>
                       /\ ret'[t].setProxy <=> ~ProxyLeftAlone(in, h)
                       /\ ret'[t].setFollowRedirect <=>
                             handles[h].followRedirects # in.FollowRedirects]_vars

\* C6 witness: a call on an existing session has set a new proxy and flipped
\* the flag, and holds the handle with both as requested.
C6_Witness ==
    /\ pc["t1"] = "unlock" /\ ret["t1"].err = NoErr
    /\ client["t1"] \notin {Absent, NilClient}
    /\ ret["t1"].setProxy /\ ret["t1"].setFollowRedirect
    /\ handles[ret["t1"].client].proxy = Deref(requestInput["t1"].ProxyUrl)
    /\ handles[ret["t1"].client].followRedirects = requestInput["t1"].FollowRedirects

\* C7: a call on an existing session that supplies no proxy URL, or the
\* current one, and a different follow-redirects flag changes that flag of that
\* handle and nothing else: every other field of every handle and the whole
\* registry stay as they were.
C7_RedirectOnlyFrame ==
    [][\A t \in Threads :
          (/\ ModifyStep(t)
           /\ client[t] # NilClient
           /\ ProxyLeftAlone(requestInput[t], client[t])
           /\ handles[client[t]].followRedirects # requestInput[t].FollowRedirects)
          => /\ handles' = [handles EXCEPT ![client[t]].followRedirects =
                                               requestInput[t].FollowRedirects]
             /\ clients' = clients
             /\ ret'[t].client = client[t]
             /\ ret'[t].err = NoErr]_vars

\* C7 witness: such a call has flipped the flag of a handle that has a proxy
\* and a custom profile, while another session exists.
C7_Witness ==
    /\ pc["t1"] = "unlock" /\ ret["t1"].err = NoErr
    /\ ret["t1"].setFollowRedirect /\ ~ret["t1"].setProxy
    /\ handles[ret["t1"].client].proxy # ""
    /\ handles[ret["t1"].client].profile.clientHelloId.Client = "Custom"
    /\ \E o \in AllSessionIds \ {sessionId["t1"]} : clients[o] # Absent

\* the new proxy URL of a call on handle c is one the transport rejects
ProxyRejectedFor(in, c) ==
    in.ProxyUrl # Nil /\ Deref(in.ProxyUrl) # handles[c].proxy
                      /\ ProxyRejected(Deref(in.ProxyUrl))

\* C8: when a call on an existing session supplies a new proxy URL the
\* transport rejects, it returns an error and no handle, the handle keeps its
\* proxy, and the registry keeps the session's handle; a later call on the
\* session that the transport does not reject returns that handle.
C8_RejectedProxyKeepsSession ==
    [][\A t \in Threads :
          (ModifyStep(t) /\ client[t] # NilClient) =>
              IF ProxyRejectedFor(requestInput[t], client[t])
              THEN /\ ret'[t].err # NoErr
                   /\ ret'[t].client = NilClient
                   /\ handles'[client[t]].proxy = handles[client[t]].proxy
                   /\ clients'[sessionId[t]] = client[t]
                   /\ clients' = clients
              ELSE sessionId[t] \in modifyFailed
                   => /\ ret'[t].err = NoErr
                      /\ ret'[t].client = client[t]
                      /\ clients'[sessionId[t]] = client[t]]_vars

\* C8 witness: after a rejected proxy on a session, a later call on it has
\* returned the session's handle.
C8_Witness ==
    /\ Succeeded("t1")
    /\ sessionId["t1"] \in modifyFailed
    /\ ret["t1"].client = clients[sessionId["t1"]]
    /\ handles[ret["t1"].client].proxy = ""

\* C9 as stated: on every call for an existing session, a follow-redirects
\* flag that differs from the handle's is flipped, whatever the proxy check
\* did.
C9_RedirectAlwaysFlipped ==
    [][\A t \in Threads :
          (/\ ModifyStep(t)
           /\ client[t] # NilClient
           /\ handles[client[t]].followRedirects # requestInput[t].FollowRedirects)
          => handles'[client[t]].followRedirects = requestInput[t].FollowRedirects]_vars

\* C9 amended: a differing flag is flipped whenever the proxy check does not
\* fail (no URL, the current URL, or an accepted one); when the new proxy URL
\* is rejected the call returns before the redirect check and the flag keeps
\* its value.
C9_RedirectFlippedUnlessProxyRejected ==
    [][\A t \in Threads :
          (/\ ModifyStep(t)
           /\ client[t] # NilClient
           /\ handles[client[t]].followRedirects # requestInput[t].FollowRedirects)
          => IF ProxyRejectedFor(requestInput[t], client[t])
             THEN /\ handles'[client[t]].followRedirects =
                        handles[client[t]].followRedirects
                  /\ ~ret'[t].setFollowRedirect
             ELSE /\ handles'[client[t]].followRedirects =
                        requestInput[t].FollowRedirects
                  /\ ret'[t].setFollowRedirect]_vars

\* C9 witness: a call that asked for the other flag and a rejected proxy has
\* failed, and the handle still has the flag the call did not ask for.
C9_Witness ==
    /\ pc["t1"] = "unlock" /\ ret["t1"].err = ErrModify
    /\ client["t1"] \notin {Absent, NilClient}
    /\ handles[client["t1"]].followRedirects # requestInput["t1"].FollowRedirects

\* C10: a session id that has an entry keeps it, and the entry keeps
\* referring to the same client.
C10_RegistryOnlyGrows ==
    [][\A s \in AllSessionIds : clients[s] # Absent => clients'[s] = clients[s]]_vars

\* C10 witness: two sessions have entries and a call that modified one of
\* them has finished.
C10_Witness ==
    /\ \A s \in AllSessionIds : clients[s] \notin {Absent, NilClient}
    /\ pc["t1"] = "ret"
    /\ client["t1"] # Absent
    /\ ret["t1"].setProxy

\* thread t is inside a call, or holds its result, and passed no session id
CalledWithoutId(t) == pc[t] # "idle" /\ ~HasSessionId(requestInput[t])

\* C11: a call returns the caller's session id when one is supplied and not
\* empty, also when it returns an error; otherwise it returns a generated id
\* that no registry entry has, creates the entry for it and neither returns
\* nor changes a client that existed before.
C11_SessionIdReturned ==
    [][\A t \in Threads :
          /\ (pc'[t] # "idle" /\ HasSessionId(requestInput'[t]))
             => sessionId'[t] = Deref(requestInput'[t].SessionId)
          /\ (pc[t] = "idle" /\ CalledWithoutId(t)')
             => /\ sessionId'[t] \in {UuidSeq[i] : i \in 1..Len(UuidSeq)}
                /\ clients[sessionId'[t]] = Absent
          /\ (CalledWithoutId(t) /\ pc'[t] # "idle")
             => /\ sessionId'[t] = sessionId[t]
                /\ pc'[t] \notin {"modify", "panic"}
                /\ \A h \in 1..Len(handles) : handles'[h] = handles[h]
                /\ \A s \in AllSessionIds \ {sessionId[t]} : clients'[s] = clients[s]
                /\ CreateStep(t) => ret'[t].client \notin 1..Len(handles)
                /\ ret'[t].client # NilClient
                   => \A s \in AllSessionIds \ {sessionId[t]} :
                         clients'[s] # ret'[t].client]_vars

\* C11 witness: with a session in the registry, a call made with an empty
\* session id has failed to construct its client and holds the generated id.
C11_Witness ==
    /\ pc["t1"] = "ret"
    /\ requestInput["t1"].SessionId = Ptr("")
    /\ ret["t1"].err = ErrConstruct
    /\ sessionId["t1"] = UuidSeq[1]
    /\ clients["s1"] \notin {Absent, NilClient}

\* C12: a call on a session that has a client returns that client whatever
\* identifier, custom definition, timeout and insecure-skip-verify flag it
\* passes, without resolving a profile (a malformed JA3 string is not
\* reported); no step changes the profile, timeout or TLS-verification setting
\* of a client.
C12_CreationAttributesFixed ==
    [][/\ \A h \in 1..Len(handles) :
             /\ h \in 1..Len(handles')
             /\ handles'[h].profile = handles[h].profile
             /\ handles'[h].timeoutSeconds = handles[h].timeoutSeconds
             /\ handles'[h].insecureSkipVerify = handles[h].insecureSkipVerify
       /\ \A t \in Threads :
             (/\ pc[t] \in {"modify", "create"} /\ pc'[t] = "unlock"
              /\ clients[sessionId[t]] \notin {Absent, NilClient})
             => /\ ret'[t].err \in {NoErr, ErrModify}
                /\ ret'[t].err = NoErr => ret'[t].client = clients[sessionId[t]]
                /\ clients'[sessionId[t]] = clients[sessionId[t]]]_vars

\* C12 witness: a call with a malformed custom definition, another timeout
\* and the insecure flag has returned the session's client, which still has
\* its named profile, the default timeout and TLS verification on.
C12_Witness ==
    /\ Succeeded("t1")
    /\ requestInput["t1"].CustomTlsClient = Ptr(BadJa3Custom)
    /\ requestInput["t1"].TimeoutSeconds = 5
    /\ requestInput["t1"].InsecureSkipVerify
    /\ ret["t1"].client = clients[sessionId["t1"]]
    /\ handles[ret["t1"].client].profile = MappedTLSClients["firefox_102"]
    /\ handles[ret["t1"].client].timeoutSeconds = DefaultTimeoutSeconds
    /\ ~handles[ret["t1"].client].insecureSkipVerify

\* C13: for a custom definition with a well-formed JA3 string the resolver
\* succeeds, its settings order, pseudo-header order and priority frames have
\* the input's length and the input's element at every position, and its
\* settings map has the input's keys with the input's values.
C13_OrdersPreserved ==
    (customProfile # Nil /\ Deref(customClientDefinition).Ja3String \in WellFormedJa3)
    => LET def == Deref(customClientDefinition)
           p == Deref(customProfile)
       IN  /\ p.err = NoErr
           /\ Len(p.h2SettingsOrder) = Len(def.H2SettingsOrder)
           /\ \A i \in 1..Len(def.H2SettingsOrder) :
                 p.h2SettingsOrder[i] = def.H2SettingsOrder[i]
           /\ Len(p.pseudoHeaderOrder) = Len(def.PseudoHeaderOrder)
           /\ \A i \in 1..Len(def.PseudoHeaderOrder) :
                 p.pseudoHeaderOrder[i] = def.PseudoHeaderOrder[i]
           /\ Len(p.priorityFrames) = Len(def.PriorityFrames)
           /\ \A i \in 1..Len(def.PriorityFrames) :
                 p.priorityFrames[i] = def.PriorityFrames[i]
           /\ DOMAIN p.h2Settings = DOMAIN def.H2Settings
           /\ \A k \in DOMAIN def.H2Settings : p.h2Settings[k] = def.H2Settings[k]

\* C13 witness: the resolver has returned for the settings order 2, 4, 1 with
\* a repeated pseudo header and a repeated priority frame.
C13_Witness ==
    /\ customProfile # Nil
    /\ Deref(customProfile).err = NoErr
    /\ Deref(customClientDefinition).H2SettingsOrder = <<2, 4, 1>>
    /\ Deref(customClientDefinition).PseudoHeaderOrder = <<":path", ":path">>
    /\ Len(Deref(customClientDefinition).PriorityFrames) = 2
    /\ DOMAIN Deref(customClientDefinition).H2Settings = {4, 65535}
    /\ Deref(customProfile).h2SettingsOrder = <<2, 4, 1>>

\* C14: a BuildRequest call with a non-empty body and neither `content-type`
\* nor `Content-Type` among its header keys returns an error and no request;
\* the content-type error is returned exactly when method and URL are given,
\* the body is non-empty and neither of the two keys is present, whatever
\* other spellings are.
C14_ContentTypeRequired ==
    buildRequestOut # Nil
    => LET input == Deref(buildRequestInput)
           out == Deref(buildRequestOut)
           bodyGiven == input.RequestBody # Nil /\ Deref(input.RequestBody) # ""
           keyGiven == \E key \in {"content-type", "Content-Type"} :
                           key \in DOMAIN input.Headers
       IN  /\ (bodyGiven /\ ~keyGiven)
              => out.tlsReq = Nil /\ out.err \in {ErrNoUrlOrMethod, ErrNoContentType}
           /\ out.err = ErrNoContentType
              <=> (input.RequestMethod # "" /\ input.RequestUrl # "" /\ bodyGiven /\ ~keyGiven)

\* C14 witness: a call with a body whose only content-type header is spelled
\* CONTENT-TYPE has been refused.
C14_Witness ==
    /\ buildRequestOut # Nil
    /\ Deref(buildRequestInput).RequestBody = Ptr("{}")
    /\ DOMAIN Deref(buildRequestInput).Headers = {"CONTENT-TYPE", "accept"}
    /\ Deref(buildRequestOut).err = ErrNoContentType

\* C15: a BuildRequest call with an empty method or an empty URL returns the
\* method/url error and no request, also when the content-type check would
\* fail, and has not called http.NewRequest.
C15_MethodAndUrlFirst ==
    (/\ buildRequestOut # Nil
     /\ \/ Deref(buildRequestInput).RequestMethod = ""
        \/ Deref(buildRequestInput).RequestUrl = "")
    => /\ Deref(buildRequestOut).err = ErrNoUrlOrMethod
       /\ Deref(buildRequestOut).tlsReq = Nil
       /\ Deref(buildRequestOut).newRequests = 0

\* C15 witness: a call with a method, an empty URL, a body and no
\* content-type header has returned.
C15_Witness ==
    /\ buildRequestOut # Nil
    /\ Deref(buildRequestInput).RequestMethod = "POST"
    /\ Deref(buildRequestInput).RequestUrl = ""
    /\ Deref(buildRequestInput).RequestBody = Ptr("{}")
    /\ DOMAIN Deref(buildRequestInput).Headers = {}
    /\ Deref(buildRequestOut).err = ErrNoUrlOrMethod

\* C20: the request of a successful BuildRequest call has, for every supplied
\* header name as spelled, an entry holding exactly the supplied value, and
\* its header-order entry has the input header order's length and its element
\* at every position.
C20_HeadersAndOrderKept ==
    (buildRequestOut # Nil /\ Deref(buildRequestOut).err = NoErr)
    => LET input == Deref(buildRequestInput)
           header == Deref(Deref(buildRequestOut).tlsReq).Header
       IN  /\ \A key \in DOMAIN input.Headers :
                 key \in DOMAIN header /\ header[key] = <<input.Headers[key]>>
           /\ HeaderOrderKey \in DOMAIN header
           /\ Len(header[HeaderOrderKey]) = Len(input.HeaderOrder)
           /\ \A i \in 1..Len(input.HeaderOrder) :
                 header[HeaderOrderKey][i] = input.HeaderOrder[i]

\* C16: the cookie mapping of a BuildResponse call that succeeded has one key
\* per distinct name in the cookie sequence, and the value of a key is the
\* serialized string of the last cookie of that name.
C16_LastCookieWins ==
    (buildResponseOut # Nil /\ Deref(buildResponseOut).err = NoErr)
    => LET cookies == Deref(buildResponseArgs).cookies
           mapping == Deref(buildResponseOut).response.Cookies
           names == {cookies[i].Name : i \in 1..Len(cookies)}
       IN  /\ DOMAIN mapping = names
           /\ Cardinality(DOMAIN mapping) = Cardinality(names)
           /\ \A i \in 1..Len(cookies) :
                 (\A j \in (i + 1)..Len(cookies) : cookies[j].Name # cookies[i].Name)
                 => mapping[cookies[i].Name] = CookieString(cookies[i])

\* C16 witness: a response with the cookies a=1 and a=2 has been translated
\* into a mapping with the one key a holding a=2.
C16_Witness ==
    /\ buildResponseOut # Nil
    /\ Deref(buildResponseOut).err = NoErr
    /\ Deref(buildResponseArgs).cookies
          = <<[Name |-> "a", Value |-> "1"], [Name |-> "a", Value |-> "2"]>>
    /\ DOMAIN Deref(buildResponseOut).response.Cookies = {"a"}
    /\ Deref(buildResponseOut).response.Cookies["a"] = "a=2"

\* C17: the body is not closed before the call; after it the body has been
\* closed exactly once; the call returns an error exactly when reading the
\* body fails, and otherwise the body is drained and the Response carries the
\* session id, the status code, the headers and the body read.
C17_BodyClosedOnce ==
    /\ buildResponseArgs # Nil /\ buildResponseOut = Nil
       => Deref(buildResponseArgs).resp.Body.closes = 0
    /\ buildResponseOut # Nil
       => LET args == Deref(buildResponseArgs)
              out == Deref(buildResponseOut)
          IN  /\ args.resp.Body.closes = 1
              /\ out.err # NoErr <=> args.resp.Body.failsRead
              /\ out.err = NoErr
                 => /\ args.resp.Body.drained
                    /\ out.response.SessionId = args.sessionId
                    /\ out.response.Status = args.resp.StatusCode
                    /\ out.response.Headers = args.resp.Header
                    /\ out.response.Body = args.resp.Body.content

\* C17 witness: a call whose read failed has returned the error, with the
\* body closed.
C17_Witness ==
    /\ buildResponseOut # Nil
    /\ Deref(buildResponseOut).err = ErrRead
    /\ Deref(buildResponseArgs).resp.Body.failsRead
    /\ Deref(buildResponseArgs).resp.Body.closes = 1
    /\ Len(Deref(buildResponseArgs).cookies) = 2

\* the thread is between clientsLock.Lock() and the deferred Unlock()
InCritical(t) == pc[t] \in {"modify", "redirect", "create", "unlock"}

\* registry and handles after the thread's call has run alone, start to end,
\* on the registry and handles it found when it took the lock
RunAlone(t) ==
    LET in == requestInput[t]
        before == atLock[t]
        m == handleModification(before.handles, client[t], in.ProxyUrl, in.FollowRedirects)
        resolved == ResolveProfile(in)
        made == NewHttpClient(before.handles, ClientOptions(in, resolved.profile))
    IN  IF client[t] # Absent
        THEN [clients |-> IF m.err = NoErr /\ m.changed
                          THEN [before.clients EXCEPT ![sessionId[t]] = m.client]
                          ELSE before.clients,
              handles |-> m.handles]
        ELSE IF resolved.err # NoErr
        THEN before
        ELSE [clients |-> [before.clients EXCEPT ![sessionId[t]] = made.client],
              handles |-> made.handles]

\* C18: at most one call is between Lock and Unlock; until its first setter
\* call it sees the registry and the handles as they were when it took the
\* lock, with no other call's mutation in progress; after its proxy step only
\* its own proxy change has been made; and when it is about to unlock,
\* registry and handles are what the call run alone would have left.
C18_CallsAtomic ==
    /\ \A t, u \in Threads : (InCritical(t) /\ InCritical(u)) => t = u
    /\ \A t \in Threads :
          /\ InCritical(t) => clientsLock
          /\ pc[t] \in {"modify", "create"}
             => clients = atLock[t].clients /\ handles = atLock[t].handles
          /\ pc[t] = "redirect"
             => /\ clients = atLock[t].clients
                /\ \A h \in 1..Len(handles) :
                      /\ h \in 1..Len(atLock[t].handles)
                      /\ h # client[t] => handles[h] = atLock[t].handles[h]
                      /\ handles[h].followRedirects = atLock[t].handles[h].followRedirects
                      /\ handles[h].proxy # atLock[t].handles[h].proxy
                         => handles[h].proxy = Deref(requestInput[t].ProxyUrl)
          /\ pc[t] = "unlock"
             => clients = RunAlone(t).clients /\ handles = RunAlone(t).handles

\* C18 witness: one call is between its proxy change and its redirect change
\* on a session's handle while the other waits for the lock with the same
\* session id.
C18_Witness ==
    /\ pc["t1"] = "redirect"
    /\ ret["t1"].setProxy
    /\ handles[client["t1"]].followRedirects # requestInput["t1"].FollowRedirects
    /\ pc["t2"] = "lock"
    /\ sessionId["t2"] = sessionId["t1"]
    /\ requestInput["t2"].ProxyUrl = Nil

\* C19: the lock is held only while a call is inside getTlsClient, so that it
\* is free again when the call hands its result to the caller, and every
\* call that has started reaches its return.
C19_LockReleasedCallsReturn ==
    /\ [](clientsLock => \E t \in Threads : InCritical(t))
    /\ \A t \in Threads : (pc[t] # "idle") ~> (pc[t] = "ret")

\* what holds of the lock and of returning: the lock is held only inside
\* getTlsClient, also after a panic, and a started call returns unless a
\* goroutine has panicked
LockReleasedCallsReturnUnlessPanic ==
    /\ [](clientsLock => \E t \in Threads : InCritical(t))
    /\ \A t \in Threads : (pc[t] # "idle") ~> (pc[t] = "ret" \/ aborted)

====
